---------------------------- MODULE Spec2Model ----------------------------
(***************************************************************************)
(* Conway's Game of Life (src/main.py): the Board's grid of buttons, its   *)
(* list of active cells, the stop flag, the speed and the Tk "after"       *)
(* callbacks that drive Board.update_cells.                                *)
(*                                                                         *)
(* A button is identified by its position <<row, col>> in Board.cells      *)
(* (0-based, as in the source).  Python lists are sequences: element i of  *)
(* a Python list is element i + 1 of the sequence.                         *)
(***************************************************************************)
EXTENDS Integers, Sequences, FiniteSets, TLC

VARIABLES
    nrows,          \* Board.nrows
    ncols,          \* Board.ncols
    speed,          \* Board.speed
    cells,          \* Board.cells: <<>> until place(), then the grid of buttons
    bg,             \* the "bg" option of every button
    active_cells,   \* Board.active_cells, a list of buttons
    stopped,        \* Board._stopped
    timers,         \* delays of the pending master.after(delay, update_cells)
    inputs,         \* toggle_cell / deactivate_cell / set_speed calls since the initial state
    last_call,      \* the handler run by the last step
    last_arg,       \* its argument: <<row, col>>, a button or a speed; <<>> if none
    raised,         \* the exception that call ended with, or "none"
    pause_text      \* the "text" option of ControllerPanel.pause_button

vars == <<nrows, ncols, speed, cells, bg, active_cells, stopped, timers,
          inputs, last_call, last_arg, raised, pause_text>>

----------------------------------------------------------------------------
(* Bounds of the model. *)

\* the board of the main specification is BoardRows x BoardCols
BoardRows == 2
BoardCols == 2
\* user inputs (toggle_cell, deactivate_cell, set_speed) in one run
MaxInputs == 3
\* after-callbacks pending at once
MaxPending == 2
\* the boards whose every alive set is tried: at most MaxRows x MaxCols, MaxCells cells
MaxRows == 3
MaxCols == 3
MaxCells == 9
\* the boards on which a 2x2 block is placed are at most MaxBlockSide square
MaxBlockSide == 4
\* speeds tried reach this far outside the slider's range
SpeedMargin == 12

(* Program constants. *)

DefaultSpeed == 20
InitialDelay == 1000
SliderFrom == 0
SliderTo == 100

\* ControllerPanel.symbols, the pause and the play symbol of the button
symbols == <<"pause", "play">>

active_colors == <<"white", "#9BFF23", "#23EEFF", "#EB23FF", "#FFA523">>
disabled_color == "black"

----------------------------------------------------------------------------
(* Python built-ins used by the source. *)

max(a, b) == IF a >= b THEN a ELSE b
min(a, b) == IF a <= b THEN a ELSE b

\* range(a, b)
range(a, b) == a .. (b - 1)

\* x in lst
In(x, lst) == \E i \in 1..Len(lst) : lst[i] = x

\* lst.index(x), 0-based; -1 stands for ValueError
index(lst, x) ==
    IF In(x, lst)
    THEN (CHOOSE i \in 1..Len(lst) : lst[i] = x /\ \A j \in 1..(i - 1) : lst[j] # x) - 1
    ELSE -1

\* lst.remove(x): drops the first occurrence of x
remove(lst, x) ==
    LET k == index(lst, x) + 1
    IN  [i \in 1..(Len(lst) - 1) |-> IF i < k THEN lst[i] ELSE lst[i + 1]]

\* lst[i] is defined for -len(lst) <= i < len(lst); negative i counts from the end
ValidIndex(lst, i) == (0 - Len(lst)) <= i /\ i < Len(lst)
subscript(lst, i) == IF i >= 0 THEN lst[i + 1] ELSE lst[Len(lst) + i + 1]

\* the timers list without its i-th element
WithoutTimer(tm, i) == [j \in 1..(Len(tm) - 1) |-> IF j < i THEN tm[j] ELSE tm[j + 1]]

----------------------------------------------------------------------------
(* The grid. *)

\* the buttons built by _init_grid
Grid(R, C) == [y \in 1..R |-> [x \in 1..C |-> <<y - 1, x - 1>>]]

Buttons(R, C) == (0..(R - 1)) \X (0..(C - 1))

\* the (row, col) pairs in the order of the two nested loops of update_cells
RowMajor(R, C) == [k \in 1..(R * C) |-> <<(k - 1) \div C, (k - 1) % C>>]

\* the alive set a list of active cells stands for
AliveSet == {active_cells[i] : i \in 1..Len(active_cells)}

----------------------------------------------------------------------------
(* Board.get_neighbors_count, over the list ac of active cells. *)

\* a count that takes the cell itself for one of its neighbours
get_neighbors_count_with_self(row, col, ac) ==
    Cardinality({ p \in range(max(0, row - 1), min(nrows, row + 2))
                          \X range(max(0, col - 1), min(ncols, col + 2)) :
                    In(subscript(subscript(cells, p[1]), p[2]), ac) })

\* a count whose window is not cut at row 0 and column 0, so that index -1
\* reads the last row or column
get_neighbors_count_wrapping(row, col, ac) ==
    Cardinality({ p \in range(row - 1, min(nrows, row + 2))
                          \X range(col - 1, min(ncols, col + 2)) :
                    p # <<row, col>> /\ In(subscript(subscript(cells, p[1]), p[2]), ac) })

get_neighbors_count(row, col, ac) ==
    Cardinality({ p \in range(max(0, row - 1), min(nrows, row + 2))
                          \X range(max(0, col - 1), min(ncols, col + 2)) :
                    p # <<row, col>> /\ In(subscript(subscript(cells, p[1]), p[2]), ac) })

(* The first loop of update_cells: the cells to activate and to deactivate,
   in the order the loops meet them. *)

\* a birth rule that also fires on two alive neighbours
IsBirth_on_two_or_three(p, ac) ==
    LET alive_neighbors == get_neighbors_count(p[1], p[2], ac)
        is_alive == In(subscript(subscript(cells, p[1]), p[2]), ac)
    IN  ~is_alive /\ alive_neighbors \in {2, 3}

IsBirth(p, ac) ==
    LET alive_neighbors == get_neighbors_count(p[1], p[2], ac)
        is_alive == In(subscript(subscript(cells, p[1]), p[2]), ac)
    IN  ~is_alive /\ alive_neighbors = 3

\* a death rule that does not ask whether the cell is alive
IsDeath_on_any_cell(p, ac) ==
    LET alive_neighbors == get_neighbors_count(p[1], p[2], ac)
        is_alive == In(subscript(subscript(cells, p[1]), p[2]), ac)
    IN  ~(~is_alive /\ alive_neighbors = 3)
        /\ alive_neighbors \notin {2, 3}

\* a death rule under which only two alive neighbours keep a cell alive
IsDeath_unless_two(p, ac) ==
    LET alive_neighbors == get_neighbors_count(p[1], p[2], ac)
        is_alive == In(subscript(subscript(cells, p[1]), p[2]), ac)
    IN  ~(~is_alive /\ alive_neighbors = 3)
        /\ is_alive /\ alive_neighbors \notin {2}

IsDeath(p, ac) ==
    LET alive_neighbors == get_neighbors_count(p[1], p[2], ac)
        is_alive == In(subscript(subscript(cells, p[1]), p[2]), ac)
    IN  ~(~is_alive /\ alive_neighbors = 3)
        /\ is_alive /\ alive_neighbors \notin {2, 3}

cells_to_activate(ac) ==
    LET Test(p) == IsBirth(p, ac) IN SelectSeq(RowMajor(nrows, ncols), Test)

cells_to_deactivate(ac) ==
    LET Test(p) == IsDeath(p, ac) IN SelectSeq(RowMajor(nrows, ncols), Test)

\* a deactivate_cell that takes the button off the list and leaves its colour
DeactivateCell_keeps_colour(st, button) ==
    [ac |-> IF In(button, st.ac) THEN remove(st.ac, button) ELSE st.ac,
     bg |-> st.bg]

(* Board.deactivate_cell on the pair st = [ac |-> list, bg |-> colours]. *)

DeactivateCell(st, button) ==
    \* s is st, worked out once
    CHOOSE new \in {[ac |-> IF In(button, s.ac) THEN remove(s.ac, button) ELSE s.ac,
                     bg |-> [s.bg EXCEPT ![button] = disabled_color]] : s \in {st}} : TRUE

(* The batch update of update_cells. *)

RECURSIVE ActivateAll(_, _)
ActivateAll(st, todo) ==
    IF todo = <<>> THEN st
    ELSE LET btn == Head(todo)
             \* s is st, worked out once
             nxt == CHOOSE new \in {IF ~In(btn, s.ac)
                                    THEN [ac |-> Append(s.ac, btn),
                                          bg |-> [s.bg EXCEPT ![btn] = active_colors[1]]]
                                    ELSE s : s \in {st}} : TRUE
         IN  ActivateAll(nxt, Tail(todo))

RECURSIVE DeactivateAll(_, _)
DeactivateAll(st, todo) ==
    IF todo = <<>> THEN st
    ELSE DeactivateAll(DeactivateCell(st, Head(todo)), Tail(todo))

BatchUpdate(st) ==
    DeactivateAll(ActivateAll(st, cells_to_activate(st.ac)), cells_to_deactivate(st.ac))

\* a delay with the wrong slope
delay_slope_ten(s) == max(10, 1000 - (s * 10))

\* a delay whose slope brings speed 100 down to the 10 ms floor
delay_reaching_floor(s) == max(10, 1000 - ((s * 99) \div 10))

(* delay = max(10, int(1000 - (self.speed * 9))) *)

delay(s) == max(10, 1000 - (s * 9))

\* an update_cells that does not look at the stop flag
update_cells_without_stop_check(st, tm) ==
    \E new \in {BatchUpdate([ac |-> active_cells, bg |-> bg])} :
        /\ active_cells' = new.ac
        /\ bg' = new.bg
        /\ timers' = Append(tm, delay(speed))

\* an update_cells that takes its step but does not arm the next callback
update_cells_without_rearm(st, tm) ==
    IF st
    THEN /\ UNCHANGED <<active_cells, bg>>
         /\ timers' = tm
    ELSE \E new \in {BatchUpdate([ac |-> active_cells, bg |-> bg])} :
             /\ active_cells' = new.ac
             /\ bg' = new.bg
             /\ timers' = tm

\* an update_cells that arms the next callback before it looks at the stop flag
update_cells_rearming_when_stopped(st, tm) ==
    IF st
    THEN /\ UNCHANGED <<active_cells, bg>>
         /\ timers' = Append(tm, delay(speed))
    ELSE \E new \in {BatchUpdate([ac |-> active_cells, bg |-> bg])} :
             /\ active_cells' = new.ac
             /\ bg' = new.bg
             /\ timers' = Append(tm, delay(speed))

(* Board.update_cells, run with the stop flag st and the pending timers tm. *)

update_cells(st, tm) ==
    IF st
    THEN /\ UNCHANGED <<active_cells, bg>>
         /\ timers' = tm
    ELSE \E new \in {BatchUpdate([ac |-> active_cells, bg |-> bg])} :
             /\ active_cells' = new.ac
             /\ bg' = new.bg
             /\ timers' = Append(tm, delay(speed))

----------------------------------------------------------------------------
(* The handlers. *)

\* Board.place: builds the grid, sets the stop flag and arms the first callback
place ==
    /\ cells = <<>>
    /\ Len(timers) < MaxPending
    /\ cells' = Grid(nrows, ncols)
    /\ bg' = [b \in Buttons(nrows, ncols) |-> disabled_color]
    /\ stopped' = TRUE
    /\ timers' = Append(timers, InitialDelay)
    /\ last_call' = "place"
    /\ last_arg' = <<>>
    /\ raised' = "none"
    /\ UNCHANGED <<nrows, ncols, speed, active_cells, inputs, pause_text>>

\* a toggle_cell that appends the button whether or not it is in the list
toggle_cell_always_appends(col, row) ==
    /\ cells # <<>>
    /\ inputs < MaxInputs
    /\ inputs' = inputs + 1
    /\ last_call' = "toggle_cell"
    /\ last_arg' = <<row, col>>
    /\ IF ~ValidIndex(cells, row) \/ ~ValidIndex(subscript(cells, row), col)
       THEN /\ raised' = "IndexError"
            /\ UNCHANGED <<active_cells, bg>>
       ELSE LET button == subscript(subscript(cells, row), col)
            IN  /\ raised' = "none"
                /\ active_cells' = Append(active_cells, button)
                /\ bg' = [bg EXCEPT ![button] = subscript(active_colors, 0)]
    /\ UNCHANGED <<nrows, ncols, speed, cells, stopped, timers, pause_text>>

\* a toggle_cell that kills a cell that is alive
toggle_cell_kills_alive(col, row) ==
    /\ cells # <<>>
    /\ inputs < MaxInputs
    /\ inputs' = inputs + 1
    /\ last_call' = "toggle_cell"
    /\ last_arg' = <<row, col>>
    /\ IF ~ValidIndex(cells, row) \/ ~ValidIndex(subscript(cells, row), col)
       THEN /\ raised' = "IndexError"
            /\ UNCHANGED <<active_cells, bg>>
       ELSE LET button == subscript(subscript(cells, row), col)
            IN  /\ raised' = "none"
                /\ IF In(button, active_cells)
                   THEN /\ active_cells' = remove(active_cells, button)
                        /\ bg' = [bg EXCEPT ![button] = disabled_color]
                   ELSE /\ active_cells' = Append(active_cells, button)
                        /\ bg' = [bg EXCEPT ![button] = subscript(active_colors, 0)]
    /\ UNCHANGED <<nrows, ncols, speed, cells, stopped, timers, pause_text>>

\* Board.toggle_cell(col=col, row=row)
toggle_cell(col, row) ==
    /\ cells # <<>>
    /\ inputs < MaxInputs
    /\ inputs' = inputs + 1
    /\ last_call' = "toggle_cell"
    /\ last_arg' = <<row, col>>
    /\ IF ~ValidIndex(cells, row) \/ ~ValidIndex(subscript(cells, row), col)
       THEN /\ raised' = "IndexError"
            /\ UNCHANGED <<active_cells, bg>>
       ELSE LET button == subscript(subscript(cells, row), col)
            IN  IF In(button, active_cells)
                THEN LET current_color_idx == index(active_colors, bg[button])
                     IN  IF current_color_idx = -1
                         THEN /\ raised' = "ValueError"
                              /\ UNCHANGED <<active_cells, bg>>
                         ELSE /\ raised' = "none"
                              /\ bg' = [bg EXCEPT ![button] =
                                    subscript(active_colors,
                                        (current_color_idx + 1) % Len(active_colors))]
                              /\ UNCHANGED active_cells
                ELSE /\ raised' = "none"
                     /\ active_cells' = Append(active_cells, button)
                     /\ bg' = [bg EXCEPT ![button] = subscript(active_colors, 0)]
    /\ UNCHANGED <<nrows, ncols, speed, cells, stopped, timers, pause_text>>

\* Board.deactivate_cell(button)
deactivate_cell(button) ==
    /\ cells # <<>>
    /\ inputs < MaxInputs
    /\ inputs' = inputs + 1
    /\ last_call' = "deactivate_cell"
    /\ last_arg' = button
    /\ raised' = "none"
    /\ LET new == DeactivateCell([ac |-> active_cells, bg |-> bg], button)
       IN  /\ active_cells' = new.ac
           /\ bg' = new.bg
    /\ UNCHANGED <<nrows, ncols, speed, cells, stopped, timers, pause_text>>

\* a set_speed that also re-arms the pending callbacks with the new delay
set_speed_rescheduling(value) ==
    /\ cells # <<>>
    /\ inputs < MaxInputs
    /\ inputs' = inputs + 1
    /\ speed' = value
    /\ timers' = [i \in 1..Len(timers) |-> delay(value)]
    /\ last_call' = "set_speed"
    /\ last_arg' = value
    /\ raised' = "none"
    /\ UNCHANGED <<nrows, ncols, cells, bg, active_cells, stopped, pause_text>>

\* ControllerPanel.set_speed(value)
set_speed(value) ==
    /\ cells # <<>>
    /\ inputs < MaxInputs
    /\ inputs' = inputs + 1
    /\ speed' = value
    /\ last_call' = "set_speed"
    /\ last_arg' = value
    /\ raised' = "none"
    /\ UNCHANGED <<nrows, ncols, cells, bg, active_cells, stopped, timers, pause_text>>

\* Board.stop
stop ==
    /\ cells # <<>>
    /\ stopped' = TRUE
    /\ last_call' = "stop"
    /\ last_arg' = <<>>
    /\ raised' = "none"
    /\ UNCHANGED <<nrows, ncols, speed, cells, bg, active_cells, timers, inputs, pause_text>>

\* a resume that only schedules the next callback and takes no step itself
resume_without_step ==
    /\ cells # <<>>
    /\ Len(timers) < MaxPending
    /\ stopped' = FALSE
    /\ timers' = Append(timers, delay(speed))
    /\ last_call' = "resume"
    /\ last_arg' = <<>>
    /\ raised' = "none"
    /\ UNCHANGED <<nrows, ncols, speed, cells, bg, active_cells, inputs, pause_text>>

\* Board.resume
resume ==
    /\ cells # <<>>
    /\ Len(timers) < MaxPending
    /\ stopped' = FALSE
    /\ update_cells(FALSE, timers)
    /\ last_call' = "resume"
    /\ last_arg' = <<>>
    /\ raised' = "none"
    /\ UNCHANGED <<nrows, ncols, speed, cells, inputs, pause_text>>

\* the event loop runs the i-th pending after-callback, Board.update_cells
TimerFires(i) ==
    /\ i \in 1..Len(timers)
    /\ update_cells(stopped, WithoutTimer(timers, i))
    /\ last_call' = "update_cells"
    /\ last_arg' = <<>>
    /\ raised' = "none"
    /\ UNCHANGED <<nrows, ncols, speed, cells, stopped, inputs, pause_text>>

\* a change_pause_state that calls stop() where the code calls resume(), and
\* resume() where it calls stop()
change_pause_state_swapped ==
    /\ cells # <<>>
    /\ LET current_symbol_idx == index(symbols, pause_text)
           next_idx == (current_symbol_idx + 1) % Len(symbols)
       IN  /\ pause_text' = subscript(symbols, next_idx)
           /\ IF next_idx # 0
              THEN /\ Len(timers) < MaxPending
                   /\ stopped' = FALSE
                   /\ update_cells(FALSE, timers)
                   /\ last_call' = "resume"
              ELSE /\ stopped' = TRUE
                   /\ last_call' = "stop"
                   /\ UNCHANGED <<bg, active_cells, timers>>
    /\ last_arg' = <<>>
    /\ raised' = "none"
    /\ UNCHANGED <<nrows, ncols, speed, cells, inputs>>

\* ControllerPanel.change_pause_state, the command of the play/pause button,
\* with the Board.resume or Board.stop it calls
change_pause_state ==
    /\ cells # <<>>
    /\ LET current_symbol_idx == index(symbols, pause_text)
           next_idx == (current_symbol_idx + 1) % Len(symbols)
       IN  /\ pause_text' = subscript(symbols, next_idx)
           /\ IF next_idx = 0
              THEN /\ Len(timers) < MaxPending
                   /\ stopped' = FALSE
                   /\ update_cells(FALSE, timers)
                   /\ last_call' = "resume"
              ELSE /\ stopped' = TRUE
                   /\ last_call' = "stop"
                   /\ UNCHANGED <<bg, active_cells, timers>>
    /\ last_arg' = <<>>
    /\ raised' = "none"
    /\ UNCHANGED <<nrows, ncols, speed, cells, inputs>>

----------------------------------------------------------------------------
(* The program: Board() then the event loop. *)

\* the speeds set_speed is called with: the slider's low end and one past its high end
SpeedInputs == {SliderFrom, SliderTo + 1}

\* the (row, col) toggle_cell is called with: every button, and the rows just
\* outside the grid
ToggleInputs == Buttons(nrows, ncols) \cup {<<-1, 0>>, <<nrows, 0>>}

Init ==
    /\ nrows = BoardRows
    /\ ncols = BoardCols
    /\ speed = DefaultSpeed
    /\ cells = <<>>
    /\ bg = <<>>
    /\ active_cells = <<>>
    /\ stopped = TRUE
    /\ timers = <<>>
    /\ inputs = 0
    /\ last_call = "__init__"
    /\ last_arg = <<>>
    /\ raised = "none"
    /\ pause_text = subscript(symbols, 1)

Next ==
    \/ place
    \/ \E p \in ToggleInputs : toggle_cell(p[2], p[1])
    \/ \E b \in Buttons(nrows, ncols) : deactivate_cell(b)
    \/ \E v \in SpeedInputs : set_speed(v)
    \/ stop
    \/ resume
    \/ \E i \in 1..MaxPending : TimerFires(i)

Spec == Init /\ [][Next]_vars

----------------------------------------------------------------------------
(* The board as it stands after Board(nrows=R, ncols=C), place() and one
   toggle_cell on each button of the list pattern, in that order: the
   scheduler is stopped and the callback armed by place() is pending. *)

Pattern(R, C, pattern) ==
    /\ nrows = R
    /\ ncols = C
    /\ speed = DefaultSpeed
    /\ cells = Grid(R, C)
    /\ bg = [b \in Buttons(R, C) |->
                IF In(b, pattern) THEN subscript(active_colors, 0) ELSE disabled_color]
    /\ active_cells = pattern
    /\ stopped = TRUE
    /\ timers = <<InitialDelay>>
    /\ inputs = 0
    /\ last_call = IF pattern = <<>> THEN "place" ELSE "toggle_cell"
    /\ last_arg = IF pattern = <<>> THEN <<>> ELSE pattern[Len(pattern)]
    /\ raised = "none"
    /\ pause_text = subscript(symbols, 1)

\* the scheduler alone: play, pause and the event loop's callbacks
NextEvolve ==
    \/ stop
    \/ resume
    \/ \E i \in 1..MaxPending : TimerFires(i)

(* Every alive set of every small board, its cells toggled in row order. *)

GridSizes ==
    {sz \in (1..MaxRows) \X (1..MaxCols) : sz[1] * sz[2] <= MaxCells}

InRowOrder(R, C, alive) ==
    LET Test(p) == p \in alive IN SelectSeq(RowMajor(R, C), Test)

InitRule ==
    \E sz \in GridSizes :
        \E alive \in SUBSET Buttons(sz[1], sz[2]) :
            Pattern(sz[1], sz[2], InRowOrder(sz[1], sz[2], alive))

SpecRule == InitRule /\ [][NextEvolve]_vars

\* the scheduler and the speed slider
NextRun ==
    \/ NextEvolve
    \/ \E v \in SpeedInputs : set_speed(v)

(* The horizontal blinker on a 5x5 board, its cells toggled in any order. *)

Horizontal == {<<1, 1>>, <<1, 2>>, <<1, 3>>}
Vertical == {<<0, 2>>, <<1, 2>>, <<2, 2>>}

InitBlinker ==
    \E a \in Horizontal, b \in Horizontal, c \in Horizontal :
        /\ {a, b, c} = Horizontal
        /\ Pattern(5, 5, <<a, b, c>>)

SpecBlinker == InitBlinker /\ [][NextRun]_vars

(* The blinker's board under Tk's event loop, which runs every after-callback
   once its delay has passed: a pending callback is not postponed for ever. *)

TimerCallback == \E i \in 1..MaxPending : TimerFires(i)

SpecTicks == InitBlinker /\ [][NextRun]_vars /\ WF_vars(TimerCallback)

(* A 2x2 block with its top left cell at <<r, c>>, anywhere on a board. *)

Block(r, c) == {<<r, c>>, <<r, c + 1>>, <<r + 1, c>>, <<r + 1, c + 1>>}

InitBlock ==
    \E R \in 2..MaxBlockSide, C \in 2..MaxBlockSide :
        \E r \in 0..(R - 2), c \in 0..(C - 2) :
            Pattern(R, C, InRowOrder(R, C, Block(r, c)))

SpecBlock == InitBlock /\ [][NextRun]_vars

(* Board(speed=s) for every speed s in and around the slider's range. *)

SpeedRange == (SliderFrom - SpeedMargin)..(SliderTo + SpeedMargin)

InitDelay ==
    /\ nrows = BoardRows
    /\ ncols = BoardCols
    /\ speed \in SpeedRange
    /\ cells = <<>>
    /\ bg = <<>>
    /\ active_cells = <<>>
    /\ stopped = TRUE
    /\ timers = <<>>
    /\ inputs = 0
    /\ last_call = "__init__"
    /\ last_arg = <<>>
    /\ raised = "none"
    /\ pause_text = subscript(symbols, 1)

NextDelay ==
    \/ place
    \/ stop
    \/ resume
    \/ \E i \in 1..MaxPending : TimerFires(i)

SpecDelay == InitDelay /\ [][NextDelay]_vars

(* The program as its user drives it: the scheduler is started and paused
   through the play/pause button only. *)

NextButton ==
    \/ place
    \/ \E p \in ToggleInputs : toggle_cell(p[2], p[1])
    \/ \E b \in Buttons(nrows, ncols) : deactivate_cell(b)
    \/ \E v \in SpeedInputs : set_speed(v)
    \/ change_pause_state
    \/ \E i \in 1..MaxPending : TimerFires(i)

SpecButton == Init /\ [][NextButton]_vars

----------------------------------------------------------------------------
(* What the properties below compare the program with. *)

\* the step just taken ran the rules: resume() always does, a callback only
\* while the board is running
EvolutionStep ==
    \/ last_call' = "resume"
    \/ last_call' = "update_cells" /\ ~stopped

\* the neighbours of p on a hard-edged R x C grid
Neighbours(p, R, C) ==
    {q \in Buttons(R, C) : q # p /\ (q[1] - p[1]) \in (-1)..1 /\ (q[2] - p[2]) \in (-1)..1}

\* the B3/S23 successor of the alive set A
LifeNext(A, R, C) ==
    {p \in Buttons(R, C) :
        LET n == Cardinality(Neighbours(p, R, C) \cap A)
        IN  IF p \in A THEN n \in {2, 3} ELSE n = 3}

----------------------------------------------------------------------------
\* C1: one evolution step turns the alive set into its B3/S23 successor on the
\* hard-edged grid, every neighbour count taken from the generation before
\* the step.
C1_StepIsLifeRule ==
    [][EvolutionStep => AliveSet' = LifeNext(AliveSet, nrows, ncols)]_vars

\* a callback has just run the rules on a board of MaxCells cells and a cell
\* was born (the list is no longer in row order) while others are dead
C1_Witness ==
    /\ last_call = "update_cells"
    /\ ~stopped
    /\ nrows * ncols = MaxCells
    /\ AliveSet # {}
    /\ AliveSet # Buttons(nrows, ncols)
    /\ active_cells # InRowOrder(nrows, ncols, AliveSet)

\* C2: at any moment at most one update_cells callback is pending.
C2_OnePendingCallback == Len(timers) <= 1

\* C3: a callback that fires while the board is stopped leaves the alive set
\* (and every button's colour) as it was.
C3_StoppedCallbackChangesNothing ==
    [][(last_call' = "update_cells" /\ stopped)
            => (AliveSet' = AliveSet /\ active_cells' = active_cells /\ bg' = bg)]_vars

\* the board ran, was stopped, and a callback has fired since with cells alive
\* and another callback of the run still pending
C3_Witness ==
    /\ last_call = "update_cells"
    /\ stopped
    /\ AliveSet # {}
    /\ timers # <<>>
    /\ timers[1] # InitialDelay

\* C4: resume() leaves the board running, takes exactly one evolution step
\* from the alive set as it is when resume() is called and arms one callback;
\* every later callback steps from the alive set as it is when it fires.
C4_ResumeStepsFromCurrentSet ==
    [][/\ last_call' = "resume"
            => /\ ~stopped'
               /\ AliveSet' = LifeNext(AliveSet, nrows, ncols)
               /\ Len(timers') = Len(timers) + 1
       /\ (last_call' = "update_cells" /\ ~stopped)
            => AliveSet' = LifeNext(AliveSet, nrows, ncols)]_vars

\* resume() has just run on a board where three toggled cells gave birth to
\* a fourth
C4_Witness ==
    /\ last_call = "resume"
    /\ ~stopped
    /\ inputs = 3
    /\ Cardinality(AliveSet) = 4

\* C5: toggle_cell with a coordinate outside the grid raises and leaves the
\* active cells as they were.
C5_OutOfBoundsRejected ==
    [][(last_call' = "toggle_cell" /\ last_arg' \notin Buttons(nrows, ncols))
            => (raised' = "IndexError" /\ active_cells' = active_cells)]_vars

\* C6: the delay armed after a step is max(10, 1000 - speed * 9): 1000 at
\* speed 0, 550 at speed 50, 100 at speed 100, never above the delay of a
\* lower speed, and 1000 - speed * 9 >= 100 for every speed of the slider.
C6_DelayMapping ==
    [][EvolutionStep =>
        LET d == timers'[Len(timers')]
        IN  /\ d = IF 1000 - speed * 9 >= 10 THEN 1000 - speed * 9 ELSE 10
            /\ speed = 0 => d = 1000
            /\ speed = 50 => d = 550
            /\ speed = 100 => d = 100
            /\ speed \in SliderFrom..SliderTo => (d = 1000 - speed * 9 /\ d >= 100)
            /\ \A s \in SpeedRange : s <= speed => delay(s) >= d]_vars

\* a step has just armed the 100 ms delay of speed 100
C6_Witness ==
    /\ last_call \in {"resume", "update_cells"}
    /\ ~stopped
    /\ speed = 100
    /\ timers # <<>>
    /\ timers[Len(timers)] = 100

\* C7: the stored speed is always within the slider's range.
C7_SpeedInRange == speed \in SliderFrom..SliderTo

\* C8: on the 5x5 board every evolution step turns the horizontal blinker
\* into the vertical one and the vertical one into the horizontal one.
C8_BlinkerAlternates ==
    [][EvolutionStep =>
        \/ AliveSet = Horizontal /\ AliveSet' = Vertical
        \/ AliveSet = Vertical /\ AliveSet' = Horizontal]_vars

\* a callback has just brought the horizontal blinker back
C8_Witness ==
    /\ last_call = "update_cells"
    /\ ~stopped
    /\ nrows = 5
    /\ ncols = 5
    /\ AliveSet = Horizontal
    /\ active_cells[1] = <<1, 2>>

\* C9: a 2x2 block alone on the board never changes, wherever it is.
C9_BlockIsStill ==
    [][AliveSet' = AliveSet /\ Cardinality(AliveSet') = 4]_vars

\* a callback has just run the rules on a block that touches no edge
C9_Witness ==
    /\ last_call = "update_cells"
    /\ ~stopped
    /\ nrows = 4
    /\ ncols = 4
    /\ AliveSet = Block(1, 1)

\* C10: toggle_cell on a button of the grid leaves it alive and changes no
\* other cell; on a button that is already alive the list of active cells is
\* unchanged.
C10_ToggleIsIdempotent ==
    [][(last_call' = "toggle_cell" /\ last_arg' \in Buttons(nrows, ncols))
            => /\ AliveSet' = AliveSet \cup {last_arg'}
               /\ last_arg' \in AliveSet => active_cells' = active_cells]_vars

\* toggle_cell has just run a second time on the same button
C10_Witness ==
    /\ last_call = "toggle_cell"
    /\ last_arg \in AliveSet
    /\ bg[last_arg] = subscript(active_colors, 1)

\* C11: for every button, get_neighbors_count is the number of alive cells
\* among its neighbours inside the hard-edged grid, the button itself left
\* out: at most 3 in a corner, 5 on an edge, 8 elsewhere.
C11_NeighbourCount ==
    \A p \in Buttons(nrows, ncols) :
        LET n == get_neighbors_count(p[1], p[2], active_cells)
            on_row_edge == p[1] \in {0, nrows - 1}
            on_col_edge == p[2] \in {0, ncols - 1}
        IN  /\ n = Cardinality(Neighbours(p, nrows, ncols) \cap AliveSet)
            /\ n <= 8
            /\ (on_row_edge \/ on_col_edge) => n <= 5
            /\ (on_row_edge /\ on_col_edge) => n <= 3

\* a callback has just counted the neighbours on a 3x3 board where a corner
\* has its largest count and the centre is alive with three alive neighbours
C11_Witness ==
    /\ last_call = "update_cells"
    /\ ~stopped
    /\ nrows = 3
    /\ ncols = 3
    /\ <<1, 1>> \in AliveSet
    /\ get_neighbors_count(0, 0, active_cells) = 3
    /\ get_neighbors_count(1, 1, active_cells) = 3

\* C12 as stated: the delay armed at speed 100 is the 10 ms floor, and the
\* delay armed at speed 0 is 1000 ms.
C12_FloorAtFullSpeed ==
    [][EvolutionStep =>
        LET d == timers'[Len(timers')]
        IN  /\ speed = 100 => d = 10
            /\ speed = 0 => d = 1000]_vars

\* C12 as amended: the delay armed at speed 100 is 100 ms, the delay armed
\* at speed 0 is 1000 ms, and the 10 ms floor is armed from speed 110 on only.
C12_NoFloorAtFullSpeed ==
    [][EvolutionStep =>
        LET d == timers'[Len(timers')]
        IN  /\ speed = 100 => d = 100
            /\ speed = 0 => d = 1000
            /\ d = 10 <=> speed >= 110]_vars

\* resume() at speed 100 has just armed 100 ms behind the callback of place()
C12_Witness ==
    /\ last_call = "resume"
    /\ speed = 100
    /\ timers = <<InitialDelay, 100>>

\* C13: while the board runs a callback is pending; a callback that runs the
\* rules arms exactly one callback in place of itself and resume() arms one
\* more; and if the board runs for ever, callbacks run the rules again and again.
C13_RunningKeepsTicking ==
    /\ [](~stopped => timers # <<>>)
    /\ [][/\ (last_call' = "update_cells" /\ ~stopped) => Len(timers') = Len(timers)
          /\ last_call' = "resume" => Len(timers') = Len(timers) + 1]_vars
    /\ (<>[](~stopped)) => []<><<last_call' = "update_cells" /\ ~stopped>>_vars

\* a callback has just run the rules, cells are alive and its successor is
\* the one callback pending
C13_Witness ==
    /\ last_call = "update_cells"
    /\ ~stopped
    /\ Len(timers) = 1
    /\ AliveSet # {}

\* C14: a callback that fires while the board is stopped changes no cell and
\* arms nothing; while the board stays stopped the number of pending
\* callbacks never grows; and if the board stays stopped for ever, in the end
\* no callback is pending.
C14_StoppedCallbacksDrain ==
    /\ [][/\ (last_call' = "update_cells" /\ stopped)
                => (Len(timers') = Len(timers) - 1 /\ active_cells' = active_cells)
          /\ (cells # <<>> /\ stopped /\ stopped') => Len(timers') <= Len(timers)]_vars
    /\ (<>[]stopped) => <>[](timers = <<>>)

\* the board ran (the blinker stands vertical), was stopped, and the last
\* pending callback has fired
C14_Witness ==
    /\ last_call = "update_cells"
    /\ stopped
    /\ timers = <<>>
    /\ AliveSet = Vertical


\* the set of the elements of a list
ToSet(lst) == {lst[i] : i \in 1..Len(lst)}

\* C15: in every evolution step no cell is both to activate and to deactivate,
\* the cells to activate are dead and the cells to deactivate alive before
\* the commit, and the commit gives the same list and the same colours
\* whether the births or the deaths are applied first.
C15_BirthsAndDeathsCommute ==
    [][EvolutionStep =>
        LET st == [ac |-> active_cells, bg |-> bg]
            births == cells_to_activate(active_cells)
            deaths == cells_to_deactivate(active_cells)
            deaths_first == ActivateAll(DeactivateAll(st, deaths), births)
        IN  /\ ToSet(births) \cap ToSet(deaths) = {}
            /\ ToSet(births) \cap AliveSet = {}
            /\ ToSet(deaths) \subseteq AliveSet
            /\ active_cells' = deaths_first.ac
            /\ bg' = deaths_first.bg]_vars

\* a callback has just run a step in which a cell was born (the list is no
\* longer in row order), and the board it leaves has again both a cell to
\* activate and a cell to deactivate
C15_Witness ==
    /\ last_call = "update_cells"
    /\ ~stopped
    /\ nrows * ncols = MaxCells
    /\ active_cells # <<>>
    /\ active_cells # InRowOrder(nrows, ncols, AliveSet)
    /\ \E b \in Buttons(nrows, ncols) : b \notin AliveSet /\ get_neighbors_count(b[1], b[2], active_cells) = 3
    /\ \E b \in AliveSet : get_neighbors_count(b[1], b[2], active_cells) \notin {2, 3}

\* C16: set_speed only stores the speed: the pending callbacks, their delays,
\* the stop flag and the board are as before, so it neither triggers nor
\* cancels a tick; the callback an evolution step arms is delayed by
\* 1000 - 9 * speed ms (10 ms at least) for the speed stored when that step
\* ends, and the callbacks that were pending besides it keep their delays.
C16_SpeedActsOnNextDelay ==
    [][/\ last_call' = "set_speed" =>
            /\ speed' = last_arg'
            /\ timers' = timers
            /\ UNCHANGED <<active_cells, bg, stopped>>
       /\ EvolutionStep =>
            /\ speed' = speed
            /\ timers' # <<>>
            /\ timers'[Len(timers')] =
                  IF 1000 - 9 * speed' >= 10 THEN 1000 - 9 * speed' ELSE 10
            /\ \/ last_call' = "resume" /\ SubSeq(timers', 1, Len(timers') - 1) = timers
               \/ /\ last_call' = "update_cells"
                  /\ \E i \in 1..Len(timers) :
                        SubSeq(timers', 1, Len(timers') - 1) = WithoutTimer(timers, i)]_vars

\* the board runs and the speed was just set to one past the slider's end
\* while the callback armed at the default speed is still pending, with the
\* delay it was armed with
C16_Witness ==
    /\ last_call = "set_speed"
    /\ ~stopped
    /\ speed = SliderTo + 1
    /\ timers # <<>>
    /\ timers[Len(timers)] = 1000 - 9 * DefaultSpeed

\* C17: active_cells never holds a button twice, whatever toggle_cell,
\* deactivate_cell and the evolution steps did before, and so the button
\* deactivate_cell was called with is dead when it returns.
C17_NoDuplicateActiveCell ==
    /\ [](Cardinality(AliveSet) = Len(active_cells))
    /\ [][last_call' = "deactivate_cell" =>
            /\ ~In(last_arg', active_cells')
            /\ In(last_arg', active_cells) => Len(active_cells') = Len(active_cells) - 1]_vars

\* deactivate_cell has just returned on a running board: its button is dead
\* and black, and a cell that toggle_cell made alive is still in the list
C17_Witness ==
    /\ last_call = "deactivate_cell"
    /\ ~In(last_arg, active_cells)
    /\ bg[last_arg] = disabled_color
    /\ active_cells # <<>>
    /\ inputs = MaxInputs
    /\ ~stopped

\* C18: disabled_color is not one of active_colors, and on the placed board a
\* button is black exactly when it is not in active_cells, an alive button
\* has one of the active colours and the colour lookup of toggle_cell has
\* not failed; an evolution step gives a cell it bears the first active
\* colour and leaves a cell that survives it the colour it had.
C18_ColourFollowsLife ==
    /\ [](/\ ~In(disabled_color, active_colors)
          /\ raised # "ValueError"
          /\ cells # <<>> =>
                \A b \in Buttons(nrows, ncols) :
                    /\ bg[b] = disabled_color <=> ~In(b, active_cells)
                    /\ In(b, active_cells) => In(bg[b], active_colors))
    /\ [][EvolutionStep =>
            \A b \in Buttons(nrows, ncols) :
                /\ (~In(b, active_cells) /\ In(b, active_cells')) => bg'[b] = active_colors[1]
                /\ (In(b, active_cells) /\ In(b, active_cells')) => bg'[b] = bg[b]]_vars

\* a callback has just run a step on the running board that bore the one
\* cell toggle_cell had not made alive: the whole board is alive and coloured
C18_Witness ==
    /\ last_call = "update_cells"
    /\ ~stopped
    /\ inputs = MaxInputs
    /\ AliveSet = Buttons(nrows, ncols)
    /\ \A b \in Buttons(nrows, ncols) : bg[b] = active_colors[1]

\* C19: with the scheduler driven through the play/pause button only, the
\* button shows the pause symbol exactly when the placed board is running and
\* the play symbol exactly when it is stopped; resume() is called on a
\* stopped board only and stop() on a running board only, so the two calls
\* alternate, resume() first.
C19_ButtonAgreesWithScheduler ==
    /\ [](/\ pause_text = symbols[1] <=> ~stopped
          /\ pause_text = symbols[2] <=> stopped)
    /\ [][/\ last_call' = "resume" => (stopped /\ ~stopped' /\ pause_text' = symbols[1])
          /\ last_call' = "stop" => (~stopped /\ stopped' /\ pause_text' = symbols[2])]_vars

\* the button was pressed a second time: stop() was called on a board that a
\* step of resume() had changed, and the button shows the play symbol again
C19_Witness ==
    /\ last_call = "stop"
    /\ stopped
    /\ pause_text = symbols[2]
    /\ Len(timers) = MaxPending
    /\ AliveSet = Buttons(nrows, ncols)
    /\ inputs = MaxInputs

============================================================================
